---------------------------- MODULE Spec2Model ----------------------------
(***************************************************************************)
(* A model of three pieces of FiPy:                                        *)
(*   - _HarmonicCellToFaceVariable (harmonicCellToFaceVariable.py): the    *)
(*     harmonic cell-to-face interpolation in its two strategies,          *)
(*     _calcValuePy (Numeric arrays) and _calcValueIn (inlined C loop);    *)
(*   - MetalIonSourceVariable (metalIonSourceVariable.py): the source      *)
(*     coefficient of the metal ion equation;                              *)
(*   - Equation (equation.py): the base class of the equations.            *)
(*                                                                         *)
(* Floating point numbers are modelled as exact numbers                    *)
(*        (n / d) * 10^e * sqrt(2)^s                                       *)
(* held in records [n, d, e, s] (see Rat).  The decimal exponent e lets    *)
(* the model hold 1e-20 and 1e-25 next to 1 within TLC's integers; the     *)
(* factor sqrt(2)^s is there for the interface areas of the doctest of     *)
(* metalIonSourceVariable.py.                                              *)
(***************************************************************************)
EXTENDS Integers, Sequences, FiniteSets

(***************************************************************************)
(* Numbers                                                                 *)
(***************************************************************************)
RECURSIVE GCD(_, _)
GCD(a, b) == IF b = 0 THEN a ELSE GCD(b, a % b)

Abs(k) == IF k < 0 THEN -k ELSE k

RECURSIVE Pow10(_)
Pow10(k) == IF k = 0 THEN 1 ELSE 10 * Pow10(k - 1)

Zero == [n |-> 0, d |-> 1, e |-> 0, s |-> 0]

\* The result of a division by zero (IEEE inf/nan): it propagates through
\* every operation and equals no finite number.
Inf == [n |-> 1, d |-> 0, e |-> 0, s |-> 0]

IsInf(x) == x.d = 0

IsZero(x) == x.d # 0 /\ x.n = 0

\* The number (n / d) * 10^e * sqrt(2)^s in canonical form: d > 0, n/d in
\* lowest terms, s in {0, 1}, and zero written in one way only.
Rat(n, d, e, s) ==
    IF d = 0 THEN Inf
    ELSE IF n = 0 THEN Zero
    ELSE LET s2 == s % 2
             k  == (s - s2) \div 2
             n1 == IF k > 0 THEN n * 2 ELSE n
             d1 == IF k < 0 THEN d * 2 ELSE d
             sg == IF d1 < 0 THEN -1 ELSE 1
             g  == GCD(Abs(n1), Abs(d1))
         IN  [n |-> sg * (n1 \div g), d |-> Abs(d1) \div g, e |-> e, s |-> s2]

Num(n, e) == Rat(n, 1, e, 0)

Neg(x) == IF IsInf(x) THEN Inf ELSE [x EXCEPT !.n = -x.n]

Mul(x, y) ==
    IF IsInf(x) \/ IsInf(y) THEN Inf
    ELSE Rat(x.n * y.n, x.d * y.d, x.e + y.e, x.s + y.s)

Div(x, y) ==
    IF IsInf(x) \/ IsInf(y) \/ IsZero(y) THEN Inf
    ELSE Rat(x.n * y.d, x.d * y.n, x.e - y.e, x.s - y.s)

\* x + y.  Operands of one decimal exponent are added exactly.  Operands of
\* different exponents are, in the values this model draws, at least 17
\* decimal digits apart, and the sum of two doubles that far apart is the
\* larger one: the smaller is below half a unit in its last place.
Add(x, y) ==
    IF IsInf(x) \/ IsInf(y) THEN Inf
    ELSE IF IsZero(x) THEN y
    ELSE IF IsZero(y) THEN x
    ELSE IF x.e = y.e
         THEN Rat(x.n * y.d + y.n * x.d, x.d * y.d, x.e, x.s)
         ELSE IF x.e > y.e THEN x ELSE y

Sub(x, y) == Add(x, Neg(y))

Sgn(x) == IF x.n > 0 THEN 1 ELSE IF x.n < 0 THEN -1 ELSE 0

\* x > y for positive x and y of the same s.  Exponents up to 8 digits
\* apart are aligned exactly; beyond that the exponent decides, the
\* fractions n/d of the model being within a few units of 1.
GtPos(x, y) ==
    LET g == x.e - y.e
    IN  IF g > 8 THEN TRUE
        ELSE IF g < -8 THEN FALSE
        ELSE IF g >= 0 THEN x.n * Pow10(g) * y.d > y.n * x.d
        ELSE x.n * y.d > y.n * Pow10(-g) * x.d

\* x > y; a comparison with inf/nan is false, as with an IEEE nan.
Gt(x, y) ==
    IF IsInf(x) \/ IsInf(y) THEN FALSE
    ELSE IF Sgn(x) # Sgn(y) THEN Sgn(x) > Sgn(y)
    ELSE IF Sgn(x) = 0 THEN FALSE
    ELSE IF Sgn(x) > 0 THEN GtPos(x, y)
    ELSE GtPos(Neg(y), Neg(x))

\* x == y as numbers.
NumEq(x, y) ==
    /\ ~IsInf(x)
    /\ ~IsInf(y)
    /\ x.s = y.s
    /\ ~Gt(x, y)
    /\ ~Gt(y, x)

One == Num(1, 0)

Half == Rat(1, 2, 0, 0)

(***************************************************************************)
(* State                                                                   *)
(***************************************************************************)
\* The face values (or cell values) of a variable that has not been computed.
NoValue == << >>

\* The divisor of a face on which no division was performed.
NoDiv == [n |-> 0, d |-> 0, e |-> 0, s |-> 0]

\* Python's None
None == "None"

VARIABLES
    var,        \* self.var: the cell values, indexed by cell id
    alpha,      \* the interpolation weight of each face
    valPy,      \* the face values returned by _calcValuePy for var, or NoValue
    valIn,      \* the face values returned by _calcValueIn for var, or NoValue
    divPy,      \* the divisor _calcValuePy used on each face
    divIn       \* the divisor _calcValueIn used on each face, NoDiv if none

hvars == <<var, alpha, valPy, valIn, divPy, divIn>>

VARIABLES
    ionVar,                 \* self.ionVar: the ion concentration of each cell
    interfaceAreas,         \* self.distanceVariable.getCellInterfaceAreas()
    depositionRate,         \* self.depositionRate, for each cell
    cellVolumes,            \* self.mesh.getCellVolumes()
    metalIonAtomicVolume,   \* self.metalIonAtomicVolume
    requiredVariables,      \* the variables registered through requires()
    value,                  \* self.value: the cached source, or NoValue
    stale,                  \* the cached value is to be recomputed on a read
    ionDivisor,             \* the divisor _calcValue used for the concentration
    calcRan,                \* the latest read ran _calcValue
    lastOp,                 \* the latest operation on the source variable
    nMut                    \* the mutations so far

svars == <<ionVar, interfaceAreas, depositionRate, cellVolumes,
           metalIonAtomicVolume, requiredVariables, value, stale, ionDivisor,
           calcRan, lastOp, nMut>>

VARIABLES
    eq,             \* the Equation object: var, terms, solver,
                    \* solutionTolerance, converged
    ctor,           \* the arguments the Equation was constructed with
    eqOp,           \* the latest operation called on the Equation
    returned,       \* what that operation returned
    nSolve,         \* the calls of solve so far
    nCalls,         \* the calls of the other operations so far
    residual,       \* the residual of the step the latest solve was asked for
    solverCalls,    \* the invocations of the Solver so far
    contributed,    \* the Terms contributed to the Solver's system
    varUpdates      \* the updates of the value of the target variable

evars == <<eq, ctor, eqOp, returned, nSolve, nCalls, residual, solverCalls,
           contributed, varUpdates>>

vars == <<hvars, svars, evars>>

\* The three components are checked one at a time, each under its own
\* specification; the variables of the other two then rest at these values.
HarmonicIdle ==
    /\ var = NoValue
    /\ alpha = NoValue
    /\ valPy = NoValue
    /\ valIn = NoValue
    /\ divPy = NoValue
    /\ divIn = NoValue

SourceIdle ==
    /\ ionVar = NoValue
    /\ interfaceAreas = NoValue
    /\ depositionRate = NoValue
    /\ cellVolumes = NoValue
    /\ metalIonAtomicVolume = NoValue
    /\ requiredVariables = {}
    /\ value = NoValue
    /\ stale = FALSE
    /\ ionDivisor = NoValue
    /\ calcRan = FALSE
    /\ lastOp = None
    /\ nMut = 0

EquationIdle ==
    /\ eq = NoValue
    /\ ctor = NoValue
    /\ eqOp = None
    /\ returned = None
    /\ nSolve = 0
    /\ nCalls = 0
    /\ residual = NoValue
    /\ solverCalls = 0
    /\ contributed = {}
    /\ varUpdates = 0

(***************************************************************************)
(* _HarmonicCellToFaceVariable                                             *)
(***************************************************************************)
\* Cells of the mesh of the face variable, a row of NumCells cells.
NumCells == 2

\* Largest |n| of the cell values n * 1 and n * 1e-20 the model draws.
MaxMant == 2

Cells == 1 .. NumCells

\* len(self.mesh.getFaces()): the faces between neighbours and the two
\* exterior faces at the ends of the row.
Faces == 1 .. (NumCells + 1)

\* mesh._getAdjacentCellIDs(): face f lies between cells f-1 and f; an
\* exterior face has its one cell on both sides.
id1(f) == IF f = 1 THEN 1 ELSE f - 1

id2(f) == IF f = NumCells + 1 THEN NumCells ELSE f

\* Values of a cell: of order 1 and of order 1e-20, of either sign, and 0.
CellValues ==
    {Num(m, 0) : m \in (-MaxMant) .. MaxMant} \cup
    {Num(m, -20) : m \in (-MaxMant) .. MaxMant}

\* mesh._getFaceToCellDistanceRatio(): a weight in [0, 1] for each face
\* between two cells, and 1 for an exterior face (where cell1 = cell2, so
\* that the blend is cell1 whatever the weight).
Alphas == {Zero, Half, One}

FaceWeights ==
    {al \in [Faces -> Alphas] : al[1] = One /\ al[NumCells + 1] = One}

eps == Num(1, -20)

\* value = ((cell2 - cell1) * alpha + cell1)
PyBlend(cell1, cell2, a) == Add(Mul(Sub(cell2, cell1), a), cell1)

\* A mutant of PySubst: the exact zero is left in place.
PySubstKeepsZero(blend) == blend

\* value = Numeric.where(value == 0., eps, value)
PySubst(blend) == IF IsZero(blend) THEN eps ELSE blend

\* The divisor of cell1 * cell2 / value: Numeric.where evaluates both of
\* its branches on every face before it selects.
PyDivisor(cell1, cell2, a) == PySubst(PyBlend(cell1, cell2, a))

\* value = Numeric.where(value > eps, cell1 * cell2 / value, 0.)
PyFace(cell1, cell2, a) ==
    LET subst == PyDivisor(cell1, cell2, a)
        quot  == Div(Mul(cell1, cell2), subst)
    IN  IF Gt(subst, eps) THEN quot ELSE Zero

calcValuePy(v, al) == [f \in Faces |-> PyFace(v[id1(f)], v[id2(f)], al[f])]

calcDivisorsPy(v, al) == [f \in Faces |-> PyDivisor(v[id1(f)], v[id2(f)], al[f])]

\* double tmp = ((cell2 - cell1) * alpha(i) + cell1);
InBlend(cell1, cell2, a) == Add(Mul(Sub(cell2, cell1), a), cell1)

\* if (tmp != 0) { val(i) = cell1 * cell2 / tmp; } else { val(i) = tmp; }
InFace(cell1, cell2, a) ==
    LET tmp == InBlend(cell1, cell2, a)
    IN  IF ~IsZero(tmp) THEN Div(Mul(cell1, cell2), tmp) ELSE tmp

InDivisor(cell1, cell2, a) ==
    LET tmp == InBlend(cell1, cell2, a)
    IN  IF ~IsZero(tmp) THEN tmp ELSE NoDiv

calcValueIn(v, al) == [f \in Faces |-> InFace(v[id1(f)], v[id2(f)], al[f])]

calcDivisorsIn(v, al) == [f \in Faces |-> InDivisor(v[id1(f)], v[id2(f)], al[f])]

HarmonicInit ==
    /\ var \in [Cells -> CellValues]
    /\ alpha \in FaceWeights
    /\ valPy = NoValue
    /\ valIn = NoValue
    /\ divPy = NoValue
    /\ divIn = NoValue
    /\ SourceIdle
    /\ EquationIdle

\* The cell variable is given a new value in one cell; the face values
\* computed from the old values are dropped.
SetCellValue(c, x) ==
    /\ var[c] # x
    /\ var' = [var EXCEPT ![c] = x]
    /\ valPy' = NoValue
    /\ valIn' = NoValue
    /\ divPy' = NoValue
    /\ divIn' = NoValue
    /\ UNCHANGED <<alpha, svars, evars>>

CalcValuePy ==
    /\ valPy' = calcValuePy(var, alpha)
    /\ divPy' = calcDivisorsPy(var, alpha)
    /\ UNCHANGED <<var, alpha, valIn, divIn, svars, evars>>

CalcValueIn ==
    /\ valIn' = calcValueIn(var, alpha)
    /\ divIn' = calcDivisorsIn(var, alpha)
    /\ UNCHANGED <<var, alpha, valPy, divPy, svars, evars>>

HarmonicNext ==
    \/ \E c \in Cells, x \in CellValues : SetCellValue(c, x)
    \/ CalcValuePy
    \/ CalcValueIn

SpecHarmonic == HarmonicInit /\ [][HarmonicNext]_vars

\* The linear blend t of face f in the current state.
Blend(f) == InBlend(var[id1(f)], var[id2(f)], alpha[f])

\* c1 * c2 / t on face f.
HarmonicMean(f) == Div(Mul(var[id1(f)], var[id2(f)]), Blend(f))

\* C1: whenever both strategies have computed the face values of the same
\* cell values, they hold the same value on every face.
StrategiesAgree ==
    (valPy # NoValue /\ valIn # NoValue) =>
        \A f \in Faces : NumEq(valPy[f], valIn[f])

\* C2: on every face whose blend t is not exactly zero, each strategy's
\* face value is c1 * c2 / t.
NonZeroBlendIsHarmonicMean ==
    \A f \in Faces :
        ~IsZero(Blend(f)) =>
            /\ valPy # NoValue => NumEq(valPy[f], HarmonicMean(f))
            /\ valIn # NoValue => NumEq(valIn[f], HarmonicMean(f))

\* C3: on every face whose blend t is exactly zero, both strategies return
\* the face value 0, and neither divides by zero on that face.
ZeroBlendGivesZero ==
    \A f \in Faces :
        IsZero(Blend(f)) =>
            /\ valPy # NoValue => (IsZero(valPy[f]) /\ ~IsZero(divPy[f]))
            /\ valIn # NoValue => (IsZero(valIn[f]) /\ divIn[f] = NoDiv)

\* A face between c1 = 1 and c2 = -1 with alpha = 0.5, whose blend is
\* exactly zero, evaluated by both strategies.
ZeroBlendWitness ==
    /\ valPy # NoValue
    /\ valIn # NoValue
    /\ \E f \in Faces :
        /\ var[id1(f)] = One
        /\ var[id2(f)] = Neg(One)
        /\ alpha[f] = Half
        /\ IsZero(Blend(f))

(***************************************************************************)
(* MetalIonSourceVariable                                                  *)
(***************************************************************************)
\* mesh = Grid2D(dx = 1, dy = 1, nx = 2, ny = 2)
nx == 2

ny == 2

SrcCells == 1 .. (nx * ny)

\* Mutations of the inputs of the source variable in one behaviour.
MaxMutations == 2

\* sqrt(2) and 1 / sqrt(2)
Sqrt2 == Rat(1, 1, 0, 1)

InvSqrt2 == Div(One, Sqrt2)

\* The floor of the concentration: the literal 1e-20 of _calcValue.
IonFloor == Num(1, -20)

\* Concentrations a cell is given: negative, zero, tiny, the floor itself,
\* just above the floor, and of order 1.
IonValues == {Num(-1, -25), Zero, Num(1, -25), IonFloor, Num(2, -20), One}

\* Interface areas a cell is given: 0 away from the interface.
AreaValues == {Zero, InvSqrt2}

RateValues == {One, Num(2, 0)}

\* A mutant of SourceRequires: the deposition rate is not registered.
SourceRequiresNoRate == {"ionVar", "distanceVariable"}

\* __init__: self.ionVar = self.requires(ionVar), self.distanceVariable =
\* self.requires(distanceVariable), self.depositionRate =
\* self.requires(depositionRate)
SourceRequires == {"ionVar", "distanceVariable", "depositionRate"}

\* A mutant of ClampIon: only non-positive concentrations are floored.
ClampIonIfNotPositive(x) == IF Gt(x, Zero) THEN x ELSE IonFloor

\* ionVar = Numeric.where(self.ionVar > 1e-20, self.ionVar, 1e-20)
ClampIon(x) == IF Gt(x, IonFloor) THEN x ELSE IonFloor

\* A mutant of calcValueCell: multiplies by the atomic volume.
calcValueCellTimesAtomicVolume(rate, area, vol, atomic, ion) ==
    Div(Div(Mul(Mul(rate, area), atomic), vol), ion)

\* depositionRate * getCellInterfaceAreas() / (getCellVolumes() *
\* metalIonAtomicVolume) / ionVar, in one cell; ion is the clamped ionVar.
calcValueCell(rate, area, vol, atomic, ion) ==
    Div(Div(Mul(rate, area), Mul(vol, atomic)), ion)

\* _calcValue: self.value
calcValue(ion, areas, rate, vols, atomic) ==
    [c \in SrcCells |->
        calcValueCell(rate[c], areas[c], vols[c], atomic, ClampIon(ion[c]))]

\* _calcValue: the divisors used for the concentration
calcIonDivisors(ion) == [c \in SrcCells |-> ClampIon(ion[c])]

\* The doctest: ionVar (1, 1, 1, 1), deposition rate (1, 1, 1, 1), and the
\* interface areas of the distances (-.5, .5, .5, 1.5), which are the
\* expected sources (0, 1 / sqrt, 1 / sqrt, 0) when every other input is 1.
DoctestIonVar == [c \in SrcCells |-> One]

DoctestRate == [c \in SrcCells |-> One]

DoctestAreas == [c \in SrcCells |-> IF c \in {2, 3} THEN InvSqrt2 ELSE Zero]

\* Construction as in the doctest (dx = dy = 1, atomic volume 1), or with
\* dx = 2 and an atomic volume of 2; the volume of a cell is dx * dy.
\* Nothing is computed yet.
SourceInit ==
    /\ ionVar = DoctestIonVar
    /\ interfaceAreas = DoctestAreas
    /\ depositionRate = DoctestRate
    /\ \E k \in {One, Num(2, 0)} :
        /\ cellVolumes = [c \in SrcCells |-> Mul(k, One)]
        /\ metalIonAtomicVolume = k
    /\ requiredVariables = SourceRequires
    /\ value = NoValue
    /\ stale = TRUE
    /\ ionDivisor = NoValue
    /\ calcRan = FALSE
    /\ lastOp = "init"
    /\ nMut = 0
    /\ HarmonicIdle
    /\ EquationIdle

\* A mutation of the variable named dep marks the source variable stale if
\* dep was registered through requires().
Mutated(dep) ==
    /\ nMut < MaxMutations
    /\ nMut' = nMut + 1
    /\ stale' = (stale \/ dep \in requiredVariables)
    /\ lastOp' = dep
    /\ UNCHANGED <<cellVolumes, metalIonAtomicVolume, requiredVariables, value,
                   ionDivisor, calcRan, hvars, evars>>

SetIonVar(c, x) ==
    /\ ionVar[c] # x
    /\ ionVar' = [ionVar EXCEPT ![c] = x]
    /\ Mutated("ionVar")
    /\ UNCHANGED <<interfaceAreas, depositionRate>>

SetDistance(c, a) ==
    /\ interfaceAreas[c] # a
    /\ interfaceAreas' = [interfaceAreas EXCEPT ![c] = a]
    /\ Mutated("distanceVariable")
    /\ UNCHANGED <<ionVar, depositionRate>>

SetDepositionRate(c, x) ==
    /\ depositionRate[c] # x
    /\ depositionRate' = [depositionRate EXCEPT ![c] = x]
    /\ Mutated("depositionRate")
    /\ UNCHANGED <<ionVar, interfaceAreas>>

\* A read of the source variable: _calcValue runs if the value is stale.
GetValue ==
    /\ IF stale
       THEN /\ value' = calcValue(ionVar, interfaceAreas, depositionRate,
                                  cellVolumes, metalIonAtomicVolume)
            /\ ionDivisor' = calcIonDivisors(ionVar)
            /\ calcRan' = TRUE
       ELSE /\ calcRan' = FALSE
            /\ UNCHANGED <<value, ionDivisor>>
    /\ stale' = FALSE
    /\ lastOp' = "getValue"
    /\ UNCHANGED <<ionVar, interfaceAreas, depositionRate, cellVolumes,
                   metalIonAtomicVolume, requiredVariables, nMut, hvars, evars>>

SourceNext ==
    \/ \E c \in SrcCells, x \in IonValues : SetIonVar(c, x)
    \/ \E c \in SrcCells, a \in AreaValues : SetDistance(c, a)
    \/ \E c \in SrcCells, x \in RateValues : SetDepositionRate(c, x)
    \/ GetValue

SpecSource == SourceInit /\ [][SourceNext]_vars

\* The larger of x and y.
Max(x, y) == IF Gt(x, y) THEN x ELSE y

\* depositionRate * interfaceArea / (cellVolume * atomicVolume) /
\* max(ionConcentration, 1e-20) in cell c, on the current inputs.
SourceFormula(c) ==
    Div(Div(Mul(depositionRate[c], interfaceAreas[c]),
            Mul(cellVolumes[c], metalIonAtomicVolume)),
        Max(ionVar[c], Num(1, -20)))

\* The source of cell c with a concentration of exactly 1e-20, all other
\* inputs as they are.
SourceAtFloor(c) ==
    Div(Div(Mul(depositionRate[c], interfaceAreas[c]),
            Mul(cellVolumes[c], metalIonAtomicVolume)),
        Num(1, -20))

\* C4: in the value a read has just returned, every cell whose ion
\* concentration is at or below 1e-20 has the source it would have with a
\* concentration of exactly 1e-20, and the divisor _calcValue used for the
\* concentration is positive in every cell.
SourceClampedAtFloor ==
    lastOp = "getValue" =>
        \A c \in SrcCells :
            /\ Gt(ionDivisor[c], Zero)
            /\ ~Gt(ionVar[c], Num(1, -20)) => NumEq(value[c], SourceAtFloor(c))

\* A read of a cell with a tiny positive concentration, one with a negative
\* concentration or zero, both at the interface.
SourceClampWitness ==
    /\ lastOp = "getValue"
    /\ \E c \in SrcCells :
        /\ ionVar[c] = Num(1, -25)
        /\ ~IsZero(value[c])
    /\ \E c \in SrcCells :
        /\ ionVar[c] \in {Zero, Num(-1, -25)}
        /\ ~IsZero(value[c])

\* The inputs of the doctest and the sources it expects.
DoctestInputs ==
    /\ ionVar = DoctestIonVar
    /\ depositionRate = DoctestRate
    /\ interfaceAreas = DoctestAreas
    /\ cellVolumes = [c \in SrcCells |-> One]
    /\ metalIonAtomicVolume = One

DoctestSources == <<Zero, InvSqrt2, InvSqrt2, Zero>>

\* C5: the value a read has just returned is, in every cell,
\* depositionRate * interfaceArea / (cellVolume * atomicVolume) /
\* max(ionConcentration, 1e-20); it is 0 in every cell whose interface area
\* is 0; and on the inputs of the doctest it is (0, 1/sqrt(2), 1/sqrt(2), 0).
SourceIsFormula ==
    lastOp = "getValue" =>
        /\ \A c \in SrcCells :
            /\ NumEq(value[c], SourceFormula(c))
            /\ IsZero(interfaceAreas[c]) => IsZero(value[c])
        /\ DoctestInputs => value = DoctestSources

\* The source variable of the doctest has been read: two cells at the
\* interface and two cells of interface area 0.
SourceDoctestWitness ==
    /\ lastOp = "getValue"
    /\ calcRan
    /\ DoctestInputs
    /\ value = DoctestSources

\* C10: the three inputs are registered through requires(); every read of
\* the source variable returns the source formula on the current values of
\* the inputs, whatever mutations came before it; and a read that follows a
\* read, with no mutation in between, does not run _calcValue.
SourceReadIsFresh ==
    [][GetValue =>
        /\ requiredVariables = {"ionVar", "distanceVariable", "depositionRate"}
        /\ \A c \in SrcCells : NumEq(value'[c], SourceFormula(c))
        /\ lastOp = "getValue" => ~calcRan']_vars

\* A read, mutations of an input, a read that recomputed, and a second read
\* that did not.
SourceReadWitness ==
    /\ lastOp = "getValue"
    /\ ~calcRan
    /\ nMut = MaxMutations
    /\ depositionRate # DoctestRate
    /\ \A c \in SrcCells : NumEq(value[c], SourceFormula(c))

(***************************************************************************)
(* Equation                                                                *)
(***************************************************************************)
\* Calls of solve in one behaviour.
MaxSolves == 2

\* Calls of the other operations in one behaviour.
MaxCalls == 3

\* solutionTolerance = 1e-4
DefaultTolerance == Num(1, -4)

Tolerances == {DefaultTolerance, Num(1, -2), Num(1, -6)}

\* Residuals a step can leave: below, at and above the tolerances.
Residuals == {Num(1, -8), Num(1, -4), Num(1, -3), One}

TargetVars == {"phase", "temperature"}

TermLists ==
    {<< >>, <<"transient">>, <<"transient", "diffusion">>,
     <<"diffusion", "transient", "source">>}

Solvers == {"pcg", "lu"}

TimeSteps == {One, Half}

\* A mutant of EquationInit: the flag starts cleared.
EquationInitNotConverged(v, terms, solver, solutionTolerance) ==
    [var |-> v, terms |-> terms, solver |-> solver,
     solutionTolerance |-> solutionTolerance, converged |-> 0]

\* Equation.__init__
EquationInit(v, terms, solver, solutionTolerance) ==
    [var |-> v, terms |-> terms, solver |-> solver,
     solutionTolerance |-> solutionTolerance, converged |-> 1]

\* getVar: return self.var
getVar(e) == e.var

\* updateVar: pass
updateVar(e) == e

\* preSolve: pass
preSolve(e) == e

\* A mutant of postSolve: it clears the flag.
postSolveClearsConverged(e) == [e EXCEPT !.converged = 0]

\* postSolve: pass
postSolve(e) == e

\* solve(dt): pass
solve(e, dt) == e

\* isConverged: return self.converged
isConverged(e) == e.converged

EquationStart ==
    /\ \E v \in TargetVars, terms \in TermLists, solver \in Solvers,
          tol \in Tolerances :
            /\ eq = EquationInit(v, terms, solver, tol)
            /\ ctor = [var |-> v, terms |-> terms, solver |-> solver]
    /\ eqOp = "init"
    /\ returned = None
    /\ nSolve = 0
    /\ nCalls = 0
    /\ residual = Zero
    /\ solverCalls = 0
    /\ contributed = {}
    /\ varUpdates = 0
    /\ HarmonicIdle
    /\ SourceIdle

\* A call of an operation other than solve.
Called(op, e, ret) ==
    /\ nCalls < MaxCalls
    /\ nCalls' = nCalls + 1
    /\ eq' = e
    /\ eqOp' = op
    /\ returned' = ret
    /\ UNCHANGED <<ctor, nSolve, residual, solverCalls, contributed, varUpdates,
                   hvars, svars>>

GetVar == Called("getVar", eq, getVar(eq))

UpdateVar == Called("updateVar", updateVar(eq), None)

PreSolve == Called("preSolve", preSolve(eq), None)

PostSolve == Called("postSolve", postSolve(eq), None)

IsConverged == Called("isConverged", eq, isConverged(eq))

\* solve(dt), asked for a step that leaves the residual r.  The body of
\* solve is pass: no Term is contributed, no Solver is invoked, the value
\* of var and the flag converged are left as they are.
Solve(dt, r) ==
    /\ nSolve < MaxSolves
    /\ nSolve' = nSolve + 1
    /\ eq' = solve(eq, dt)
    /\ eqOp' = "solve"
    /\ returned' = None
    /\ residual' = r
    /\ UNCHANGED <<ctor, nCalls, solverCalls, contributed, varUpdates, hvars,
                   svars>>

EquationNext ==
    \/ GetVar
    \/ UpdateVar
    \/ PreSolve
    \/ PostSolve
    \/ IsConverged
    \/ \E dt \in TimeSteps, r \in Residuals : Solve(dt, r)

SpecEquation == EquationStart /\ [][EquationNext]_vars

\* The Terms of a term list.
TermsOf(terms) == {terms[i] : i \in 1 .. Len(terms)}

\* C6: once solve has been called, isConverged() is the outcome of the
\* latest solve: 0 if its residual exceeded solutionTolerance, 1 if not.
ConvergedIsLatestSolve ==
    nSolve > 0 =>
        isConverged(eq) =
            (IF Gt(residual, eq.solutionTolerance) THEN 0 ELSE 1)

\* C7: the calls of solve have each contributed every Term of the term list
\* to the Solver's system, invoked the Solver once and updated the value of
\* var.
SolveDrivesSolver ==
    /\ solverCalls = nSolve
    /\ varUpdates = nSolve
    /\ nSolve > 0 => contributed = TermsOf(eq.terms)

\* C8: before the first solve, isConverged() is 1, whatever the tolerance
\* and whatever other operations have been called.
ConvergedBeforeSolve ==
    nSolve = 0 =>
        /\ isConverged(eq) = 1
        /\ eqOp = "isConverged" => returned = 1

\* isConverged() has returned 1 on an Equation of a tolerance other than
\* the default, after other operations and before any solve.
ConvergedBeforeSolveWitness ==
    /\ nSolve = 0
    /\ nCalls = MaxCalls
    /\ eqOp = "isConverged"
    /\ returned = 1
    /\ eq.solutionTolerance # DefaultTolerance

\* C9: an operation other than solve leaves var, terms, solver,
\* solutionTolerance and converged as they are; the term list is always the
\* one given at construction, and getVar() returns the variable given at
\* construction.
EquationFrame ==
    /\ [](/\ eq.terms = ctor.terms
          /\ getVar(eq) = ctor.var
          /\ eqOp = "getVar" => returned = ctor.var)
    /\ [][nSolve' = nSolve => eq' = eq]_vars

\* getVar() has returned the constructed variable after a solve and other
\* operations.
EquationFrameWitness ==
    /\ nSolve > 0
    /\ nCalls = MaxCalls
    /\ eqOp = "getVar"
    /\ returned = ctor.var
    /\ Len(eq.terms) > 1

=============================================================================
